---- MODULE Spec2Model ----
(***************************************************************************)
(* Model of src/common/utilities.ts of gaplint-vscode:                     *)
(*   getLSClientTraceLevel / logLevelToTrace  (pure)                       *)
(*   getDocumentSelector                      (pure, reads a host flag)    *)
(*   getProjectRoot                           (async, probes the disk)     *)
(***************************************************************************)
EXTENDS Integers, Sequences, FiniteSets, TLC

(***************************************************************************)
(* Bounds of the model.                                                    *)
(***************************************************************************)
MaxFolders == 3          \* longest workspace-folder list the host offers
NumCalls == 2            \* getProjectRoot calls that may be in flight at once

(***************************************************************************)
(* The universe of filesystem paths.  Len of a path is the length of the   *)
(* fsPath string, which is what getProjectRoot compares.                   *)
(***************************************************************************)
AllPaths == {"/home/user/proj/pkg1", "/home/proj", "/home/gap1", "/tmp1"}

Cwd == "/srv/work"

Undefined == "<undefined>"

basename(p) ==
    CASE p = "/home/user/proj/pkg1" -> "pkg1"
      [] p = "/home/proj" -> "proj"
      [] p = "/home/gap1" -> "gap1"
      [] p = "/tmp1" -> "tmp1"
      [] p = "/srv/work" -> "work"
      [] OTHER -> ""

WorkspaceFolder(p, idx) == [uri |-> p, name |-> basename(p), index |-> idx]

NoFolder == [uri |-> Undefined, name |-> "", index |-> -1]

Injective(s) == \A a, b \in DOMAIN s : s[a] = s[b] => a = b

ToFolders(s) == [k \in 1..Len(s) |-> WorkspaceFolder(s[k], k - 1)]

\* The folder lists the host can offer over a set of paths: distinct
\* folders, each carrying its position as index.
ListsOver(paths) ==
    UNION {{ToFolders(s) : s \in {t \in [1..n -> paths] : Injective(t)}} :
           n \in 0..MaxFolders}

VARIABLES
    workspaceFolders,   \* the host's current list of workspace folders
    existing,           \* the set of paths that exist on disk
    calls,              \* the getProjectRoot invocations
    channelLogLevel, globalLogLevel, traceLevel,
    isVirtual, selector, prevVirtual, prevSelector

rootVars == <<workspaceFolders, existing, calls>>
syncVars == <<channelLogLevel, globalLogLevel, traceLevel,
              isVirtual, selector, prevVirtual, prevSelector>>
vars == <<workspaceFolders, existing, calls, channelLogLevel, globalLogLevel,
          traceLevel, isVirtual, selector, prevVirtual, prevSelector>>

(***************************************************************************)
(* The vscode LogLevel enumeration, with its numeric values, which         *)
(* getLSClientTraceLevel compares with <=.                                 *)
(***************************************************************************)
LogLevel ==
    [Off |-> 0, Trace |-> 1, Debug |-> 2, Info |-> 3, Warning |-> 4,
     Error |-> 5]

LogLevels == {LogLevel[n] : n \in DOMAIN LogLevel}

\* utilities.ts 11-26.
logLevelToTrace(logLevel) ==
    CASE logLevel \in {LogLevel.Error, LogLevel.Warning, LogLevel.Info} ->
           "Messages"
      [] logLevel \in {LogLevel.Debug, LogLevel.Trace} -> "Verbose"
      [] OTHER -> "Off"

\* Mutant: the comparison of the two levels reversed.
getLSClientTraceLevel_Reversed(channel, global) ==
    IF channel = LogLevel.Off THEN logLevelToTrace(global)
    ELSE IF global = LogLevel.Off THEN logLevelToTrace(channel)
    ELSE logLevelToTrace(IF channel >= global THEN channel ELSE global)

\* Mutant: the test of the global level against Off left out.
getLSClientTraceLevel_NoGlobalOff(channel, global) ==
    IF channel = LogLevel.Off THEN logLevelToTrace(global)
    ELSE logLevelToTrace(IF channel <= global THEN channel ELSE global)

\* utilities.ts 28-37.
getLSClientTraceLevel(channel, global) ==
    IF channel = LogLevel.Off THEN logLevelToTrace(global)
    ELSE IF global = LogLevel.Off THEN logLevelToTrace(channel)
    ELSE logLevelToTrace(IF channel <= global THEN channel ELSE global)

GetLSClientTraceLevel ==
    /\ \E c \in LogLevels, g \in LogLevels :
         /\ channelLogLevel' = c
         /\ globalLogLevel' = g
         /\ traceLevel' = getLSClientTraceLevel(c, g)
    /\ UNCHANGED <<rootVars, isVirtual, selector, prevVirtual, prevSelector>>

(***************************************************************************)
(* getDocumentSelector (utilities.ts 70-89).  A rule is a record that has  *)
(* only the fields the object literal has.                                 *)
(***************************************************************************)
FilePattern == "*.{g,gi,gd,tst}"

VirtualSelector ==
    <<[language |-> "gap"], [language |-> "gaptst"], [pattern |-> FilePattern]>>

StandardSelector ==
    <<[scheme |-> "file", language |-> "gap"],
      [scheme |-> "untitled", language |-> "gap"],
      [scheme |-> "vscode-notebook", language |-> "gap"],
      [scheme |-> "vscode-notebook-cell", language |-> "gap"],
      [scheme |-> "file", language |-> "gaptst"],
      [scheme |-> "untitled", language |-> "gaptst"],
      [scheme |-> "vscode-notebook", language |-> "gaptst"],
      [scheme |-> "vscode-notebook-cell", language |-> "gaptst"],
      [scheme |-> "file", pattern |-> FilePattern],
      [scheme |-> "untitled", pattern |-> FilePattern],
      [scheme |-> "vscode-notebook", pattern |-> FilePattern],
      [scheme |-> "vscode-notebook-cell", pattern |-> FilePattern]>>

\* Mutant: virtual mode answers the single rule the unit test expects.
getDocumentSelector_Python(virtual) ==
    IF virtual THEN <<[language |-> "python"]>> ELSE StandardSelector

getDocumentSelector(virtual) ==
    IF virtual THEN VirtualSelector ELSE StandardSelector

\* One call of getDocumentSelector; isVirtualWorkspace() answers v.  The
\* flag and the result of the call before are kept for comparison.
GetDocumentSelector ==
    /\ \E v \in BOOLEAN :
         /\ isVirtual' = v
         /\ selector' = getDocumentSelector(v)
    /\ prevVirtual' = isVirtual
    /\ prevSelector' = selector
    /\ UNCHANGED <<rootVars, channelLogLevel, globalLogLevel, traceLevel>>

(***************************************************************************)
(* getProjectRoot (utilities.ts 39-68).  One invocation is a record: its   *)
(* position, its locals, and a log of the probes it issued and of the      *)
(* outcomes they completed with.                                           *)
(***************************************************************************)
CallIds == 1..NumCalls

IdleCall ==
    [pc |-> "idle", workspaces |-> <<>>, i |-> 0, root |-> Undefined,
     rootWorkspace |-> NoFolder, result |-> NoFolder,
     issued |-> <<>>, answers |-> <<>>]

\* getWorkspaceFolders(): the host's list as it is at the time of the call.
getWorkspaceFolders == workspaceFolders

\* fs.access on path p: succeeds only when p exists; it may fail with ENOENT
\* (absent) or with any other error (EACCES stands for them).
AccessOutcomes(p) ==
    IF p \in existing THEN {"ok", "EACCES"} ELSE {"ENOENT", "EACCES"}

\* fs-extra pathExists: access(path).then(() => true).catch(() => false).
pathExists(outcome) == IF outcome = "ok" THEN "true" ELSE "false"

\* JavaScript truthiness of the local `root` (string | undefined).
Truthy(root) == root # Undefined /\ root # ""

\* Line 42-46: the root synthesized from the working directory.
SynthesizedRoot == [uri |-> Cwd, name |-> basename(Cwd), index |-> 0]

\* Mutant: the loops read the host's live list where it is as long as the
\* list read at the start.
Candidates_Live(call) ==
    IF Len(workspaceFolders) = Len(call.workspaces) THEN workspaceFolders
    ELSE call.workspaces

\* Line 40: `const workspaces`, read once, which both loops iterate.
Candidates(call) == call.workspaces

\* Mutant: `let rootWorkspace;` left uninitialized.
InitialRootWorkspace_Undefined(ws) == NoFolder

\* Mutant: the default is the last candidate.
InitialRootWorkspace_Last(ws) == ws[Len(ws)]

\* Mutant: the comparison of line 61 made non-strict.
SecondLoopNext_NonStrict(ws, root, from) ==
    LET cands == {j \in from..Len(ws) :
                    Truthy(root) /\ Len(root) >= Len(ws[j].uri)}
    IN IF cands = {} THEN 0
       ELSE CHOOSE j \in cands : \A k \in cands : j <= k

\* Line 50: let rootWorkspace = workspaces[0].
InitialRootWorkspace(ws) == ws[1]

\* Line 60-61: the next candidate, from position `from` on, for which
\* `root && root.length > w.uri.fsPath.length` holds; 0 when there is none.
SecondLoopNext(ws, root, from) ==
    LET cands == {j \in from..Len(ws) :
                    Truthy(root) /\ Len(root) > Len(ws[j].uri)}
    IN IF cands = {} THEN 0
       ELSE CHOOSE j \in cands : \A k \in cands : j <= k

\* Lines 60-66 run from position `from` up to the next await or the return.
SecondLoop(call, from) ==
    LET j == SecondLoopNext(Candidates(call), call.root, from)
    IN IF j = 0
       THEN [call EXCEPT !.pc = "done", !.i = 0, !.result = call.rootWorkspace]
       ELSE [call EXCEPT !.pc = "await2", !.i = j,
                         !.issued = Append(@, <<2, j>>)]

\* Mutant: the `break` of line 56 left out.
FirstLoopResumed_NoBreak(call, exists) ==
    LET ws == Candidates(call)
        w == ws[call.i]
        seen == IF exists = "true"
                THEN [call EXCEPT !.root = w.uri, !.rootWorkspace = w]
                ELSE call
    IN IF call.i < Len(ws)
       THEN [seen EXCEPT !.i = @ + 1, !.issued = Append(@, <<1, call.i + 1>>)]
       ELSE SecondLoop(seen, 1)

\* Lines 53-57: the first loop resumes with the answer of the probe of
\* candidate call.i.
FirstLoopResumed(call, exists) ==
    LET ws == Candidates(call)
        w == ws[call.i]
    IN IF exists = "reject" THEN [call EXCEPT !.pc = "rejected"]
       ELSE IF exists = "true"
       THEN SecondLoop([call EXCEPT !.root = w.uri, !.rootWorkspace = w], 1)
       ELSE IF call.i < Len(ws)
       THEN [call EXCEPT !.i = @ + 1, !.issued = Append(@, <<1, call.i + 1>>)]
       ELSE SecondLoop(call, 1)

\* Lines 61-64: the second loop resumes with the answer of the probe of
\* candidate call.i.
SecondLoopResumed(call, exists) ==
    LET w == Candidates(call)[call.i]
    IN IF exists = "reject" THEN [call EXCEPT !.pc = "rejected"]
       ELSE IF exists = "true"
       THEN SecondLoop([call EXCEPT !.root = w.uri, !.rootWorkspace = w],
                       call.i + 1)
       ELSE SecondLoop(call, call.i + 1)

\* Mutant: the single-candidate shortcut of lines 47-48 left out.
Started_NoShortcut(ws) ==
    IF Len(ws) = 0
    THEN [IdleCall EXCEPT !.pc = "done", !.workspaces = ws,
                          !.result = SynthesizedRoot]
    ELSE [IdleCall EXCEPT !.pc = "await1", !.workspaces = ws, !.i = 1,
                          !.rootWorkspace = InitialRootWorkspace(ws),
                          !.issued = <<<<1, 1>>>>]

\* Lines 40-51: the call runs synchronously up to its first await.
Started(ws) ==
    IF Len(ws) = 0
    THEN [IdleCall EXCEPT !.pc = "done", !.workspaces = ws,
                          !.result = SynthesizedRoot]
    ELSE IF Len(ws) = 1
    THEN [IdleCall EXCEPT !.pc = "done", !.workspaces = ws, !.result = ws[1]]
    ELSE [IdleCall EXCEPT !.pc = "await1", !.workspaces = ws, !.i = 1,
                          !.rootWorkspace = InitialRootWorkspace(ws),
                          !.issued = <<<<1, 1>>>>]

GetProjectRoot(c) ==
    /\ calls[c].pc = "idle"
    /\ calls' = [calls EXCEPT ![c] = Started(getWorkspaceFolders)]
    /\ UNCHANGED <<workspaceFolders, existing, syncVars>>

FirstLoopResume(c) ==
    /\ calls[c].pc = "await1"
    /\ \E outcome \in AccessOutcomes(Candidates(calls[c])[calls[c].i].uri) :
         calls' = [calls EXCEPT ![c] =
                     FirstLoopResumed([calls[c] EXCEPT
                                         !.answers = Append(@, outcome)],
                                      pathExists(outcome))]
    /\ UNCHANGED <<workspaceFolders, existing, syncVars>>

SecondLoopResume(c) ==
    /\ calls[c].pc = "await2"
    /\ \E outcome \in AccessOutcomes(Candidates(calls[c])[calls[c].i].uri) :
         calls' = [calls EXCEPT ![c] =
                     SecondLoopResumed([calls[c] EXCEPT
                                          !.answers = Append(@, outcome)],
                                       pathExists(outcome))]
    /\ UNCHANGED <<workspaceFolders, existing, syncVars>>

\* The host replaces its list of workspace folders by one over `paths`.
UpdateWorkspaceFolders(paths) ==
    /\ \E ws \in ListsOver(paths) \ {workspaceFolders} :
         workspaceFolders' = ws
    /\ UNCHANGED <<existing, calls, syncVars>>

\* One of `paths` is created or removed on disk.
FsChange(paths) ==
    /\ \E p \in paths :
         existing' = IF p \in existing THEN existing \ {p}
                     ELSE existing \cup {p}
    /\ UNCHANGED <<workspaceFolders, calls, syncVars>>

SyncInit ==
    /\ channelLogLevel = 0
    /\ globalLogLevel = 0
    /\ traceLevel = "none"
    /\ isVirtual = FALSE
    /\ selector = <<>>
    /\ prevVirtual = FALSE
    /\ prevSelector = <<>>

RootInit(paths) ==
    /\ workspaceFolders \in ListsOver(paths)
    /\ existing \in SUBSET paths
    /\ calls = [c \in CallIds |-> IdleCall]

(***************************************************************************)
(* Spec: one getProjectRoot call over every folder list of the universe,   *)
(* on a disk that changes while the call is suspended.                     *)
(***************************************************************************)
Init == RootInit(AllPaths) /\ SyncInit

Next ==
    \/ GetProjectRoot(1)
    \/ FirstLoopResume(1)
    \/ SecondLoopResume(1)
    \/ FsChange(AllPaths)

Spec == Init /\ [][Next]_vars

\* A pending fs.access completes and the event loop resumes the call.
FairSpec ==
    /\ Spec
    /\ WF_vars(FirstLoopResume(1))
    /\ WF_vars(SecondLoopResume(1))

(***************************************************************************)
(* SpecConc: NumCalls calls interleaved at their suspension points, while  *)
(* the host replaces its folder list and the disk changes.                 *)
(***************************************************************************)
ConcPaths == {"/home/user/proj/pkg1", "/tmp1"}

InitConc == RootInit(ConcPaths) /\ SyncInit

NextConc ==
    \/ \E c \in CallIds : GetProjectRoot(c)
    \/ \E c \in CallIds : FirstLoopResume(c)
    \/ \E c \in CallIds : SecondLoopResume(c)
    \/ UpdateWorkspaceFolders(ConcPaths)
    \/ FsChange(ConcPaths)

SpecConc == InitConc /\ [][NextConc]_vars

(***************************************************************************)
(* getProjectRoot run alone, from line 50 to its return, on the candidates *)
(* ws with the probes answering ans[1], ans[2], ... in the order issued    *)
(* ("exists" or "absent").                                                 *)
(***************************************************************************)
\* The k-th answer; a probe past the end of ans answers absent.
AnswerAt(ans, k) == IF k \in 1..Len(ans) THEN ans[k] ELSE "absent"

RECURSIVE RunSecondLoop(_, _, _, _, _, _)
RunSecondLoop(ws, ans, j, k, root, rootWorkspace) ==
    IF j > Len(ws) THEN rootWorkspace
    ELSE IF Truthy(root) /\ Len(root) > Len(ws[j].uri)
    THEN IF AnswerAt(ans, k) = "exists"
         THEN RunSecondLoop(ws, ans, j + 1, k + 1, ws[j].uri, ws[j])
         ELSE RunSecondLoop(ws, ans, j + 1, k + 1, root, rootWorkspace)
    ELSE RunSecondLoop(ws, ans, j + 1, k, root, rootWorkspace)

RECURSIVE RunFirstLoop(_, _, _)
RunFirstLoop(ws, ans, i) ==
    IF i > Len(ws) THEN RunSecondLoop(ws, ans, 1, i, Undefined, ws[1])
    ELSE IF AnswerAt(ans, i) = "exists"
    THEN RunSecondLoop(ws, ans, 1, i + 1, ws[i].uri, ws[i])
    ELSE RunFirstLoop(ws, ans, i + 1)

RunAlone(ws, ans) ==
    IF Len(ws) = 0 THEN SynthesizedRoot
    ELSE IF Len(ws) = 1 THEN ws[1]
    ELSE RunFirstLoop(ws, ans, 1)

(***************************************************************************)
(* SpecSync: the two synchronous routines, called with every input.        *)
(***************************************************************************)
InitSync ==
    /\ workspaceFolders = <<>>
    /\ existing = {}
    /\ calls = [c \in CallIds |-> IdleCall]
    /\ SyncInit

NextSync ==
    \/ GetLSClientTraceLevel
    \/ GetDocumentSelector

SpecSync == InitSync /\ [][NextSync]_vars

(***************************************************************************)
(* Claims about getLSClientTraceLevel.                                     *)
(***************************************************************************)
\* The verbosity order the specification states:
\* Off < Error < Warning < Info < Debug < Trace.
VerbosityRank(l) ==
    CASE l = LogLevel.Off -> 0
      [] l = LogLevel.Error -> 1
      [] l = LogLevel.Warning -> 2
      [] l = LogLevel.Info -> 3
      [] l = LogLevel.Debug -> 4
      [] l = LogLevel.Trace -> 5

\* The level-to-trace map the specification states.
TraceOfLevel(l) ==
    IF VerbosityRank(l) = 0 THEN "Off"
    ELSE IF VerbosityRank(l) <= 3 THEN "Messages" ELSE "Verbose"

LessVerbose(a, b) == IF VerbosityRank(a) <= VerbosityRank(b) THEN a ELSE b

MoreVerbose(a, b) == IF VerbosityRank(a) >= VerbosityRank(b) THEN a ELSE b

TraceComputed == traceLevel # "none"

BothOn == channelLogLevel # LogLevel.Off /\ globalLogLevel # LogLevel.Off

\* C1 as stated: with both levels non-Off the result is the trace level of
\* the LESS verbose of the two; channel=Info, global=Debug yields Messages.
C1_LessVerboseWins ==
    (TraceComputed /\ BothOn) =>
        traceLevel = TraceOfLevel(LessVerbose(channelLogLevel, globalLogLevel))

\* C1 amended: with both levels non-Off the result is the trace level of
\* the MORE verbose of the two; channel=Info, global=Debug yields Verbose.
C1_MoreVerboseWins ==
    (TraceComputed /\ BothOn) =>
        /\ traceLevel =
             TraceOfLevel(MoreVerbose(channelLogLevel, globalLogLevel))
        /\ (channelLogLevel = LogLevel.Info /\ globalLogLevel = LogLevel.Debug)
             => traceLevel = "Verbose"

C1_Witness ==
    /\ channelLogLevel = LogLevel.Info
    /\ globalLogLevel = LogLevel.Debug
    /\ traceLevel = "Verbose"

\* C2: with one level Off the result is the trace level of the other level;
\* (Off, Off) gives Off, and the result is Off only when both are Off.
C2_OffDefers ==
    TraceComputed =>
        /\ channelLogLevel = LogLevel.Off
             => traceLevel = TraceOfLevel(globalLogLevel)
        /\ globalLogLevel = LogLevel.Off
             => traceLevel = TraceOfLevel(channelLogLevel)
        /\ \A x \in LogLevels : TraceOfLevel(x) = logLevelToTrace(x)
        /\ traceLevel = "Off"
             <=> (channelLogLevel = LogLevel.Off /\ globalLogLevel = LogLevel.Off)

C2_Witness ==
    /\ channelLogLevel = LogLevel.Info
    /\ globalLogLevel = LogLevel.Off
    /\ traceLevel = "Messages"

(***************************************************************************)
(* Claims about getDocumentSelector.                                       *)
(***************************************************************************)
Schemes == {"file", "untitled", "vscode-notebook", "vscode-notebook-cell"}

Languages == {"gap", "gaptst"}

SelectorComputed == selector # <<>>

RulesWith(sel, fields) == {k \in 1..Len(sel) : DOMAIN sel[k] = fields}

C8_VirtualIsPythonOnly ==
    (SelectorComputed /\ isVirtual) => selector = <<[language |-> "python"]>>

(***************************************************************************)
(* Claims about getProjectRoot.                                            *)
(***************************************************************************)
Done(c) == calls[c].pc = "done"

InFlight(c) == calls[c].pc \in {"await1", "await2"}

\* The path the k-th probe of a call was issued against.
ProbedPath(call, k) == call.workspaces[call.issued[k][2]].uri

\* Every completed probe of the call answered what the disk `fs` holds.
AnswersAgreeWith(call, fs) ==
    \A k \in 1..Len(call.answers) :
        (call.answers[k] = "ok") <=> (ProbedPath(call, k) \in fs)

\* The existing candidate with the shortest path, the first of them in
\* input order.
ShortestExisting(ws, fs) ==
    CHOOSE k \in 1..Len(ws) :
        /\ ws[k].uri \in fs
        /\ \A j \in 1..Len(ws) :
             ws[j].uri \in fs =>
                \/ Len(ws[k].uri) < Len(ws[j].uri)
                \/ Len(ws[k].uri) = Len(ws[j].uri) /\ k <= j

\* C3: with two or more candidates whose existence is the same at every
\* probe of the call (one disk fs that every probe's answer agrees with),
\* the call returns the existing candidate with the shortest path, the first
\* in input order among those of equal shortest length.
C3_ShortestExistingWins ==
    (Done(1) /\ Len(calls[1].workspaces) >= 2) =>
        \A fs \in SUBSET AllPaths :
            (/\ AnswersAgreeWith(calls[1], fs)
             /\ \E k \in 1..Len(calls[1].workspaces) :
                  calls[1].workspaces[k].uri \in fs)
            => calls[1].result =
                 calls[1].workspaces[ShortestExisting(calls[1].workspaces, fs)]

\* [A(len 20, exists), B(len 10, exists), C(len 5, absent)] returns B.
C3_Witness ==
    /\ Done(1)
    /\ Len(calls[1].workspaces) = 3
    /\ calls[1].workspaces[1].uri = "/home/user/proj/pkg1"
    /\ calls[1].workspaces[2].uri = "/home/proj"
    /\ calls[1].workspaces[3].uri = "/tmp1"
    /\ AnswersAgreeWith(calls[1], {"/home/user/proj/pkg1", "/home/proj"})
    /\ calls[1].result = calls[1].workspaces[2]

\* C4: whatever the probes answer, the root returned is an element of the
\* candidate sequence the call read at its start; when that sequence is
\* empty it is the synthesized root, index 0, located at the working
\* directory.
C4_ResultIsCandidate ==
    Done(1) =>
        IF Len(calls[1].workspaces) = 0
        THEN /\ calls[1].result.index = 0
             /\ calls[1].result.uri = Cwd
        ELSE \E k \in 1..Len(calls[1].workspaces) :
                calls[1].result = calls[1].workspaces[k]

\* A call in which one candidate answered absent in the first pass and
\* exists in the second.
C4_Witness ==
    /\ Done(1)
    /\ \E k, l \in 1..Len(calls[1].answers) :
         /\ calls[1].issued[k][1] = 1
         /\ calls[1].issued[l][1] = 2
         /\ calls[1].issued[k][2] = calls[1].issued[l][2]
         /\ calls[1].answers[k] = "ENOENT"
         /\ calls[1].answers[l] = "ok"
         /\ calls[1].result = calls[1].workspaces[calls[1].issued[l][2]]

\* C5: with exactly one candidate R the call returns R, whether or not R
\* exists, and issues no existence probe.
C5_SingleCandidate ==
    (calls[1].pc # "idle" /\ Len(calls[1].workspaces) = 1) =>
        /\ Done(1)
        /\ calls[1].result = calls[1].workspaces[1]
        /\ calls[1].issued = <<>>

C5_Witness ==
    /\ Done(1)
    /\ Len(calls[1].workspaces) = 1
    /\ calls[1].workspaces[1].uri \notin existing
    /\ calls[1].result = calls[1].workspaces[1]

\* The answers of a call with every failed probe replaced by absent.
FailuresAsAbsent(answers) ==
    [k \in 1..Len(answers) |->
       IF answers[k] = "ok" THEN "exists" ELSE "absent"]

C6_Safe ==
    /\ calls[1].pc # "rejected"
    /\ Len(calls[1].issued) <= 2 * Len(calls[1].workspaces)
    /\ (Done(1) /\ Len(calls[1].workspaces) >= 2) =>
         /\ calls[1].result =
              RunAlone(calls[1].workspaces, FailuresAsAbsent(calls[1].answers))
         /\ (\A k \in 1..Len(calls[1].answers) : calls[1].answers[k] # "ok")
              => calls[1].result = calls[1].workspaces[1]

\* C6: with two or more candidates and probes that answer exists, answer
\* absent or fail, the call always completes by returning a root and never
\* ends in an error; the root is the one returned when every failed probe
\* is replaced by absent; when every probe answers absent or fails it is
\* the first candidate.
C6_ProbeFailuresFolded == [](C6_Safe) /\ (InFlight(1) ~> Done(1))

\* A call that returned the first candidate after a probe of every
\* candidate failed or answered absent, a failure among them.
C6_Witness ==
    /\ Done(1)
    /\ Len(calls[1].workspaces) >= 2
    /\ Len(calls[1].answers) = Len(calls[1].workspaces)
    /\ \E k \in 1..Len(calls[1].answers) :
         /\ calls[1].answers[k] = "EACCES"
         /\ ProbedPath(calls[1], k) \in existing
    /\ calls[1].result = calls[1].workspaces[1]

\* C10: the probes of a call are issued one at a time, each after the one
\* before has completed; within each pass the probed indexes increase
\* strictly; the first pass stops at the first probe that answers exists;
\* the second pass starts only after the first has ended.
C10_ProbeOrder ==
    LET issued == calls[1].issued
        answers == calls[1].answers
    IN /\ Len(issued) - Len(answers) = IF InFlight(1) THEN 1 ELSE 0
       /\ \A k, l \in 1..Len(issued) :
            k < l =>
              /\ issued[k][1] <= issued[l][1]
              /\ issued[k][1] = issued[l][1] => issued[k][2] < issued[l][2]
              /\ (issued[k][1] = 1 /\ answers[k] = "ok") => issued[l][1] = 2

C10_Witness ==
    /\ Done(1)
    /\ Len(calls[1].issued) >= 4
    /\ calls[1].issued[2][1] = 1
    /\ calls[1].answers[2] = "ok"
    /\ calls[1].issued[Len(calls[1].issued)][1] = 2

\* The answers of a call as the probe reports them to the caller.
Reported(answers) ==
    [k \in 1..Len(answers) |->
       IF pathExists(answers[k]) = "true" THEN "exists" ELSE "absent"]

C9_SameAsAlone ==
    \A c \in CallIds :
        Done(c) => calls[c].result =
                     RunAlone(calls[c].workspaces, Reported(calls[c].answers))

C9_NoInterference ==
    /\ \A c, d \in CallIds :
         (c # d /\ calls'[c] # calls[c]) => calls'[d] = calls[d]
    /\ \A c \in CallIds :
         calls[c].pc # "idle" =>
            /\ calls'[c].workspaces = calls[c].workspaces
            /\ Done(c) => calls'[c] = calls[c]

\* C9: however the in-flight calls interleave at their probes, each returns
\* the root it would return run alone on the candidates it read at its
\* start with the same probe answers; a step of one call leaves every other
\* call's state as it was, and a change of the host's folder list leaves
\* the candidates and the result of a started call as they were.
C9_CallsIndependent == [](C9_SameAsAlone) /\ [][C9_NoInterference]_vars

\* Two calls, started on different folder lists that the host has replaced
\* since, and both suspended in their second pass.
C9_Witness ==
    /\ calls[1].pc = "await2"
    /\ calls[2].pc = "await2"
    /\ calls[1].workspaces # calls[2].workspaces
    /\ workspaceFolders # calls[1].workspaces
    /\ workspaceFolders # calls[2].workspaces

====
